---- MODULE Spec2Model ----
(***************************************************************************)
(* Model of main.py: one run of the unprocessed-payments report.           *)
(*   get_new_access_token -> (update_github_secret) -> get_qbo_credits     *)
(*   (PaymentMethod query, Account / Deposit / Payment page loops, the     *)
(*   per-payment filter loop) -> CSV write -> send_email_with_csv.         *)
(* Every blocking remote call and every iteration of the filter loop is    *)
(* one step.  JSON values are string tokens; a key that is absent from a   *)
(* JSON object is the token Missing.                                       *)
(***************************************************************************)
EXTENDS Integers, Sequences, FiniteSets, TLC

-----------------------------------------------------------------------------
(* Bounds of the model *)

max_results == 2        \* page size of the three loops (1000 in the source)
MaxAccounts == 2        \* largest remote Account collection
MaxDeposits == 2        \* largest remote Deposit collection
MaxPayments == 3        \* largest remote Payment collection
MaxFilterPayments == 3  \* payments of a run that varies the three predicates
MaxFlagPayments == 2    \* payments of a run that varies ProcessPayment
MaxDatePayments == 2    \* payments of a run that varies TxnDate and the run date
MaxLinkedDeposits == 3  \* deposits of a run that varies the deposits' links
MaxLines == 2           \* lines of a payment
MaxLinks == 2           \* linked transactions of a payment line

(* Program constants *)

RecentDays == 30        \* timedelta(days=30)

-----------------------------------------------------------------------------
(* JSON / Python values *)

Missing    == "<missing>"       \* key absent from the JSON object
EmptyRef   == "<{}>"            \* a reference object without "value"
PyNone     == "py:None"
PyTrue     == "bool:True"
PyFalse    == "bool:False"
PyInt0     == "int:0"
PyInt1     == "int:1"
PyInt2     == "int:2"
PyFloat1   == "float:1.0"
PyStrTrue  == "str:true"
PyStrEmpty == "str:"

Min(a, b) == IF a < b THEN a ELSE b

\* bool is a subclass of int, and int/float compare by numeric value
IsNumber(v) == v \in {PyTrue, PyFalse, PyInt0, PyInt1, PyInt2, PyFloat1}

NumValue(v) ==
    CASE v \in {PyFalse, PyInt0}          -> 0
      [] v \in {PyTrue, PyInt1, PyFloat1} -> 1
      [] v = PyInt2                       -> 2
      [] OTHER                            -> -1

\* Python's ==  on the values above
PyEq(a, b) == IF IsNumber(a) /\ IsNumber(b) THEN NumValue(a) = NumValue(b)
              ELSE a = b

\* obj.get(key, default) where v is the stored value or Missing
Get(v, default) == IF v = Missing THEN default ELSE v

\* obj.get(ref, {}).get("value", default)
RefValue(ref, default) == IF ref \in {Missing, EmptyRef} THEN default ELSE ref

\* dict.get(k, default) and dict[k] = v  on a dict modelled as a function
DictGet(dict, k, default) == IF k \in DOMAIN dict THEN dict[k] ELSE default

DictPut(dict, k, v) ==
    [x \in (DOMAIN dict) \cup {k} |-> IF x = k THEN v ELSE dict[x]]

EmptyDict == [x \in {} |-> ""]

-----------------------------------------------------------------------------
(* Calendar dates: datetime.date as [y, m, d] *)

IsLeap(y) == (y % 4 = 0 /\ y % 100 # 0) \/ y % 400 = 0

DaysInMonth(y, m) ==
    IF m = 2 THEN (IF IsLeap(y) THEN 29 ELSE 28)
    ELSE IF m \in {4, 6, 9, 11} THEN 30 ELSE 31

RECURSIVE DaysBeforeMonth(_, _)
DaysBeforeMonth(y, m) ==
    IF m <= 1 THEN 0 ELSE DaysBeforeMonth(y, m - 1) + DaysInMonth(y, m - 1)

DaysBeforeYear(y) ==
    LET p == y - 1 IN p * 365 + (p \div 4) - (p \div 100) + (p \div 400)

toordinal(dt) == DaysBeforeYear(dt.y) + DaysBeforeMonth(dt.y, dt.m) + dt.d

Date(y, m, d) == [y |-> y, m |-> m, d |-> d]

ValidDate(dt) ==
    /\ dt.y \in 1..9999
    /\ dt.m \in 1..12
    /\ dt.d \in 1..DaysInMonth(dt.y, dt.m)

\* date.fromordinal, for an ordinal in the year of 'near' or the year before
fromordinal(n, near) ==
    LET y == IF n > DaysBeforeYear(near.y) THEN near.y ELSE near.y - 1
        r == n - DaysBeforeYear(y)
        m == CHOOSE k \in 1..12 :
                 /\ DaysBeforeMonth(y, k) < r
                 /\ r <= DaysBeforeMonth(y, k) + DaysInMonth(y, k)
    IN Date(y, m, r - DaysBeforeMonth(y, m))

\* date >= date
DateGE(a, b) ==
    \/ a.y > b.y
    \/ a.y = b.y /\ a.m > b.m
    \/ a.y = b.y /\ a.m = b.m /\ a.d >= b.d

NoDate == Date(0, 0, 0)

(* A TxnDate value: k = "missing" (no key), "null", "int" (a JSON number),   *)
(* "text" (a string that does not have the shape digits-digits-digits) or   *)
(* "ymd" (the string "y-m-d" with the numbers y, m, d).                     *)
TxnDateValue(k, y, m, d) == [k |-> k, y |-> y, m |-> m, d |-> d]
DateStr(dt)  == TxnDateValue("ymd", dt.y, dt.m, dt.d)
DateMissing  == TxnDateValue("missing", 0, 0, 0)
DateNull     == TxnDateValue("null", 0, 0, 0)
DateInt      == TxnDateValue("int", 0, 0, 0)
DateEmpty    == TxnDateValue("text", 0, 0, 0)
DateGarbage  == TxnDateValue("text", 1, 0, 0)

\* payment.get("TxnDate", "")
payment_date_str(payment) ==
    IF payment.TxnDate.k = "missing" THEN DateEmpty ELSE payment.TxnDate

\* datetime.strptime(s, "%Y-%m-%d").date()
strptime(s) ==
    IF s.k \in {"null", "int"}
    THEN [exc |-> "TypeError", date |-> NoDate]
    ELSE IF s.k = "ymd" /\ ValidDate(Date(s.y, s.m, s.d))
    THEN [exc |-> "", date |-> Date(s.y, s.m, s.d)]
    ELSE [exc |-> "ValueError", date |-> NoDate]

\* the exceptions the except clause of the date check catches
CaughtByDateCheck == {"ValueError", "AttributeError"}

\* (datetime.now() - timedelta(days=30)).date()
OneMonthAgo(now) == fromordinal(toordinal(now) - RecentDays, now)

-----------------------------------------------------------------------------
(* Reference indices (get_qbo_credits, first half) *)

\* {pm["Id"]: pm["Name"] for pm in ...}
RECURSIVE BuildPaymentMethods(_, _)
BuildPaymentMethods(dict, list) ==
    IF list = <<>> THEN dict
    ELSE BuildPaymentMethods(DictPut(dict, Head(list).Id, Head(list).Name),
                             Tail(list))

\* account.get("Name", account.get("FullyQualifiedName", ""))
AccountName(account) == Get(account.Name, Get(account.FullyQualifiedName, ""))

RECURSIVE AddAccounts(_, _)
AddAccounts(dict, account_list) ==
    IF account_list = <<>> THEN dict
    ELSE AddAccounts(DictPut(dict, Head(account_list).Id,
                             AccountName(Head(account_list))),
                     Tail(account_list))

\* the deposit info stored for a payment id
DepositInfo(deposit) ==
    [Deposit_ID     |-> Get(deposit.Id, ""),
     Deposit_Number |-> Get(deposit.DocNumber, "")]

\* linked_txn.get("TxnType") == "Payment", then  if payment_id:
LinksPayment(linked_txn) ==
    /\ Get(linked_txn.TxnType, PyNone) = "Payment"
    /\ Get(linked_txn.TxnId, "") # ""

\* payment_to_deposit[payment_id] = {...}
StoreDepositFirstWins(dict, payment_id, info) ==
    IF payment_id \in DOMAIN dict THEN dict ELSE DictPut(dict, payment_id, info)

StoreDeposit(dict, payment_id, info) == DictPut(dict, payment_id, info)

RECURSIVE ScanLinkedTxns(_, _, _)
ScanLinkedTxns(dict, linked_txns, info) ==
    IF linked_txns = <<>> THEN dict
    ELSE LET linked_txn == Head(linked_txns) IN
         ScanLinkedTxns(IF LinksPayment(linked_txn)
                        THEN StoreDeposit(dict, linked_txn.TxnId, info)
                        ELSE dict,
                        Tail(linked_txns), info)

RECURSIVE ScanDepositLines(_, _, _)
ScanDepositLines(dict, deposit_lines, info) ==
    IF deposit_lines = <<>> THEN dict
    ELSE ScanDepositLines(ScanLinkedTxns(dict, Head(deposit_lines).LinkedTxn, info),
                          Tail(deposit_lines), info)

RECURSIVE ScanDeposits(_, _)
ScanDeposits(dict, deposits) ==
    IF deposits = <<>> THEN dict
    ELSE ScanDeposits(ScanDepositLines(dict, Head(deposits).Line,
                                       DepositInfo(Head(deposits))),
                      Tail(deposits))

\* if len(page) < max_results: break
LastPageWhenEmpty(page) == Len(page) = 0

LastPage(page) == Len(page) < max_results

-----------------------------------------------------------------------------
(* Per-payment derivations (get_qbo_credits, filter loop) *)

\* payment.get("ProcessPayment") != True
is_unprocessed_identity(payment) == Get(payment.ProcessPayment, PyNone) # PyTrue

is_unprocessed(payment) == ~PyEq(Get(payment.ProcessPayment, PyNone), PyTrue)

\* payment_methods.get(payment.get("PaymentMethodRef", {}).get("value"), "")
payment_method_of(payment, methods) ==
    DictGet(methods, RefValue(payment.PaymentMethodRef, PyNone), "")

\* payment_method in ["Credit Card", "ACH"]
is_valid_method(payment_method) == payment_method \in {"Credit Card", "ACH"}

\* payment_date >= one_month_ago
is_recent_strict(payment_date, month_ago) ==
    DateGE(payment_date, month_ago) /\ payment_date # month_ago

is_recent_of(payment_date, month_ago) == DateGE(payment_date, month_ago)

\* if is_unprocessed and is_valid_method and is_recent:
IncludeWithoutRecency(unprocessed, valid_method, recent) ==
    unprocessed /\ valid_method

Include(unprocessed, valid_method, recent) ==
    unprocessed /\ valid_method /\ recent

\* inner loop over one line's linked transactions: the value of
\* invoice_number when the loop ends (by break or by exhaustion)
RECURSIVE InvoiceOfLine(_, _)
InvoiceOfLine(linked_txns, invoice_number) ==
    IF linked_txns = <<>> THEN invoice_number
    ELSE IF Get(Head(linked_txns).TxnType, PyNone) = "Invoice"
    THEN Get(Head(linked_txns).TxnId, "")
    ELSE InvoiceOfLine(Tail(linked_txns), invoice_number)

\* outer loop over the payment's lines
RECURSIVE InvoiceOfLines(_, _)
InvoiceOfLines(payment_lines, invoice_number) ==
    IF payment_lines = <<>> THEN invoice_number
    ELSE LET linked_txns == Head(payment_lines).LinkedTxn IN
         IF linked_txns = <<>>
         THEN InvoiceOfLines(Tail(payment_lines), invoice_number)
         ELSE LET found == InvoiceOfLine(linked_txns, invoice_number) IN
              IF found # "" THEN found
              ELSE InvoiceOfLines(Tail(payment_lines), found)

InvoiceNumberLastLine(payment) ==
    IF payment.Line = <<>> THEN ""
    ELSE InvoiceOfLines(<<payment.Line[Len(payment.Line)]>>, "")

InvoiceNumber(payment) == InvoiceOfLines(payment.Line, "")

\* the record appended to credit_list
Row(payment, payment_method, account_id, account_name, unprocessed, deposits) ==
    LET deposit_info == DictGet(deposits, payment.Id,
                                [Deposit_ID |-> "", Deposit_Number |-> ""]) IN
    [Payment_ID            |-> payment.Id,
     Date                  |-> payment.TxnDate,
     Total_Amount          |-> payment.TotalAmt,
     QBO_Customer_ID       |-> Get(payment.CustomerRef.value, ""),
     Customer_Name         |-> Get(payment.CustomerRef.name, ""),
     Invoice_Number        |-> InvoiceNumber(payment),
     Payment_Method        |-> payment_method,
     Payment_Number        |-> Get(payment.PaymentRefNum, PyNone),
     Memo                  |-> Get(payment.PrivateNote, PyNone),
     Deposit_Account_ID    |-> account_id,
     Deposit_Account_Name  |-> account_name,
     Has_Matching_Deposit  |-> payment.Id \in DOMAIN deposits,
     Deposit_ID            |-> deposit_info.Deposit_ID,
     Deposit_Number        |-> deposit_info.Deposit_Number,
     Unprocessed           |-> unprocessed]

-----------------------------------------------------------------------------
(* State *)

VARIABLES
    remote,             \* the remote collections, by entity name
    today,              \* datetime.now().date()
    github_configured,  \* github_token and github_repo
    outcomes,           \* the results each kind of external call may have
    pc,                 \* position of the script
    access_token,
    new_refresh_token,
    payment_methods,
    accounts,
    payment_to_deposit,
    all_payments,
    start_position,
    idx,                \* position of the filter loop in all_payments
    one_month_ago,
    locals,             \* the filter loop's per-payment variables
    credit_list,
    csv_file,           \* unprocessed_payments.csv on disk
    error,              \* the exception that ended the run
    log,                \* history: the external calls made, in order
    fetched             \* history: the Account / Deposit items received

vars == <<remote, today, github_configured, outcomes, pc, access_token,
          new_refresh_token, payment_methods, accounts, payment_to_deposit,
          all_payments, start_position, idx, one_month_ago, locals,
          credit_list, csv_file, error, log, fetched>>

env == <<remote, today, github_configured, outcomes>>

Call(call, entity, pos, resp) ==
    [call |-> call, entity |-> entity, pos |-> pos, resp |-> resp]

\* the remote's answer to  SELECT * FROM entity STARTPOSITION s MAXRESULTS m
RemotePage(entity, s) ==
    LET all == remote[entity] IN
    IF s > Len(all) THEN <<>>
    ELSE SubSeq(all, s, Min(s + max_results - 1, Len(all)))

(* A query response: "ok" is HTTP 200 with {"QueryResponse": {entity: page}}; *)
(* "exception" is requests.get raising; "error_body" is a non-success status  *)
(* whose body is not JSON or has no "QueryResponse"; "error_status_page" is a  *)
(* non-success status whose body is {"QueryResponse": {}}.                    *)
QueryResponses == {"ok", "exception", "error_body", "error_status_page"}

\* response.json()["QueryResponse"] raises
QueryRaises(r) == r \in {"exception", "error_body"}

QueryError(r) == IF r = "exception" THEN "RequestException" ELSE "KeyError"

\* response.json()["QueryResponse"].get(entity, [])
QueryList(r, page) == IF r = "ok" THEN page ELSE <<>>

(* get_new_access_token: the POST to the token endpoint.  "exception" is     *)
(* requests.post raising, "http_error" a non-success status                   *)
(* (raise_for_status), "rotated" / "not_rotated" a success with / without a   *)
(* "refresh_token" in the body.                                               *)
TokenResponses == {"exception", "http_error", "rotated", "not_rotated"}

SecretResults == {"ok", "failed"}
WriteResults == {"ok", "open_failed", "write_failed"}
EmailResults == {"ok", "failed"}

\* every result of every call
AnyOutcome ==
    [token |-> TokenResponses, secret |-> SecretResults, query |-> QueryResponses,
     write |-> WriteResults, email |-> EmailResults]

\* a run in which the token is rotated and every call but the secret update succeeds
QuietOutcome ==
    [token |-> {"rotated"}, secret |-> {"failed"}, query |-> {"ok"},
     write |-> {"ok"}, email |-> {"ok"}]

NoFile == [status |-> "absent", rows |-> <<>>]
StaleFile == [status |-> "stale", rows |-> <<>>]

InitLocals ==
    [is_unprocessed |-> FALSE, payment_method |-> "", is_valid_method |-> FALSE,
     is_recent |-> FALSE, deposit_account_id |-> "", deposit_account_name |-> ""]

InitProgram ==
    /\ pc = "token"
    /\ access_token = PyNone
    /\ new_refresh_token = PyNone
    /\ payment_methods = EmptyDict
    /\ accounts = EmptyDict
    /\ payment_to_deposit = EmptyDict
    /\ all_payments = <<>>
    /\ start_position = 1
    /\ idx = 1
    /\ one_month_ago = NoDate
    /\ locals = InitLocals
    /\ credit_list = <<>>
    /\ error = ""
    /\ log = <<>>
    /\ fetched = [Account |-> <<>>, Deposit |-> <<>>]

-----------------------------------------------------------------------------
(* Steps of the script *)

\* an exception leaves the script
Abort(exc) == pc' = "aborted" /\ error' = exc

\* if github_token and github_repo and new_refresh_token:
AttemptsSecretUpdate(configured, rotated) == configured /\ rotated

RefreshToken ==
    /\ pc = "token"
    /\ \E r \in outcomes.token :
        /\ log' = Append(log, Call("token", "", 0, r))
        /\ IF r \in {"exception", "http_error"}
           THEN /\ Abort(IF r = "exception" THEN "RequestException" ELSE "HTTPError")
                /\ UNCHANGED <<access_token, new_refresh_token>>
           ELSE /\ access_token' = "access-token"
                /\ new_refresh_token' =
                       IF r = "rotated" THEN "refresh-token-2" ELSE PyNone
                /\ pc' = IF AttemptsSecretUpdate(github_configured, r = "rotated")
                         THEN "secret" ELSE "pm"
                /\ UNCHANGED error
    /\ UNCHANGED <<env, payment_methods, accounts, payment_to_deposit,
                   all_payments, start_position, idx, one_month_ago, locals,
                   credit_list, csv_file, fetched>>

\* where the script is after update_github_secret ended with result r:
\* every exception is caught inside it and turned into  return False
AfterSecretUpdateUncaught(r) == IF r = "ok" THEN "pm" ELSE "aborted"

AfterSecretUpdate(r) == "pm"

UpdateGithubSecret ==
    /\ pc = "secret"
    /\ \E r \in outcomes.secret :
        /\ log' = Append(log, Call("secret", "REFRESH_TOKEN", 0, r))
        /\ pc' = AfterSecretUpdate(r)
        /\ error' = IF AfterSecretUpdate(r) = "aborted" THEN "Exception" ELSE error
    /\ UNCHANGED <<env, access_token, new_refresh_token, payment_methods,
                   accounts, payment_to_deposit, all_payments, start_position,
                   idx, one_month_ago, locals, credit_list, csv_file, fetched>>

\* SELECT * FROM PaymentMethod (one request, no paging)
FetchPaymentMethods ==
    /\ pc = "pm"
    /\ \E r \in outcomes.query :
        /\ log' = Append(log, Call("query", "PaymentMethod", 0, r))
        /\ IF QueryRaises(r)
           THEN /\ Abort(QueryError(r))
                /\ UNCHANGED <<payment_methods, accounts, start_position>>
           ELSE /\ payment_methods' =
                       BuildPaymentMethods(EmptyDict,
                                           QueryList(r, remote.PaymentMethod))
                /\ accounts' = EmptyDict
                /\ start_position' = 1
                /\ pc' = "acct"
                /\ UNCHANGED error
    /\ UNCHANGED <<env, access_token, new_refresh_token, payment_to_deposit,
                   all_payments, idx, one_month_ago, locals, credit_list,
                   csv_file, fetched>>

\* one pass of the Account loop
FetchAccountPage ==
    /\ pc = "acct"
    /\ \E r \in outcomes.query :
        LET account_list == QueryList(r, RemotePage("Account", start_position)) IN
        /\ log' = Append(log, Call("query", "Account", start_position, r))
        /\ IF QueryRaises(r)
           THEN /\ Abort(QueryError(r))
                /\ UNCHANGED <<accounts, payment_to_deposit, start_position, fetched>>
           ELSE /\ accounts' = AddAccounts(accounts, account_list)
                /\ fetched' = [fetched EXCEPT !.Account = @ \o account_list]
                /\ IF LastPage(account_list)
                   THEN /\ pc' = "dep"
                        /\ payment_to_deposit' = EmptyDict
                        /\ start_position' = 1
                   ELSE /\ pc' = "acct"
                        /\ start_position' = start_position + max_results
                        /\ UNCHANGED payment_to_deposit
                /\ UNCHANGED error
    /\ UNCHANGED <<env, access_token, new_refresh_token, payment_methods,
                   all_payments, idx, one_month_ago, locals, credit_list,
                   csv_file>>

\* one pass of the Deposit loop
FetchDepositPage ==
    /\ pc = "dep"
    /\ \E r \in outcomes.query :
        LET deposits == QueryList(r, RemotePage("Deposit", start_position)) IN
        /\ log' = Append(log, Call("query", "Deposit", start_position, r))
        /\ IF QueryRaises(r)
           THEN /\ Abort(QueryError(r))
                /\ UNCHANGED <<payment_to_deposit, all_payments, start_position,
                               fetched>>
           ELSE /\ payment_to_deposit' = ScanDeposits(payment_to_deposit, deposits)
                /\ fetched' = [fetched EXCEPT !.Deposit = @ \o deposits]
                /\ IF LastPage(deposits)
                   THEN /\ pc' = "pay"
                        /\ all_payments' = <<>>
                        /\ start_position' = 1
                   ELSE /\ pc' = "dep"
                        /\ start_position' = start_position + max_results
                        /\ UNCHANGED all_payments
                /\ UNCHANGED error
    /\ UNCHANGED <<env, access_token, new_refresh_token, payment_methods,
                   accounts, idx, one_month_ago, locals, credit_list, csv_file>>

\* one pass of the Payment loop; leaving it starts the filter loop
FetchPaymentPage ==
    /\ pc = "pay"
    /\ \E r \in outcomes.query :
        LET payments == QueryList(r, RemotePage("Payment", start_position)) IN
        /\ log' = Append(log, Call("query", "Payment", start_position, r))
        /\ IF QueryRaises(r)
           THEN /\ Abort(QueryError(r))
                /\ UNCHANGED <<all_payments, start_position, idx, one_month_ago,
                               credit_list>>
           ELSE /\ all_payments' = all_payments \o payments
                /\ IF LastPage(payments)
                   THEN /\ pc' = "filter"
                        /\ credit_list' = <<>>
                        /\ one_month_ago' = OneMonthAgo(today)
                        /\ idx' = 1
                        /\ UNCHANGED start_position
                   ELSE /\ pc' = "pay"
                        /\ start_position' = start_position + max_results
                        /\ UNCHANGED <<idx, one_month_ago, credit_list>>
                /\ UNCHANGED error
    /\ UNCHANGED <<env, access_token, new_refresh_token, payment_methods,
                   accounts, payment_to_deposit, locals, csv_file, fetched>>

\* one iteration of  for payment in all_payments
FilterPayment ==
    /\ pc = "filter"
    /\ idx <= Len(all_payments)
    /\ LET payment == all_payments[idx]
           unprocessed == is_unprocessed(payment)
           payment_method == payment_method_of(payment, payment_methods)
           valid_method == is_valid_method(payment_method)
           parsed == strptime(payment_date_str(payment))
           recent == IF parsed.exc = "" THEN is_recent_of(parsed.date, one_month_ago)
                     ELSE FALSE
           deposit_account_id == RefValue(payment.DepositToAccountRef, "")
           deposit_account_name == DictGet(accounts, deposit_account_id, "")
       IN
       IF parsed.exc # "" /\ parsed.exc \notin CaughtByDateCheck
       THEN /\ Abort(parsed.exc)
            /\ locals' = [locals EXCEPT !.is_unprocessed = unprocessed,
                                        !.payment_method = payment_method,
                                        !.is_valid_method = valid_method]
            /\ UNCHANGED <<idx, credit_list>>
       ELSE /\ locals' = [is_unprocessed |-> unprocessed,
                          payment_method |-> payment_method,
                          is_valid_method |-> valid_method,
                          is_recent |-> recent,
                          deposit_account_id |-> deposit_account_id,
                          deposit_account_name |-> deposit_account_name]
            /\ credit_list' =
                   IF Include(unprocessed, valid_method, recent)
                   THEN Append(credit_list,
                               Row(payment, payment_method, deposit_account_id,
                                   deposit_account_name, unprocessed,
                                   payment_to_deposit))
                   ELSE credit_list
            /\ idx' = idx + 1
            /\ UNCHANGED <<pc, error>>
    /\ UNCHANGED <<env, access_token, new_refresh_token, payment_methods,
                   accounts, payment_to_deposit, all_payments, start_position,
                   one_month_ago, csv_file, log, fetched>>

\* if credit_list:  (the script after get_qbo_credits returned)
AfterCreditsAlwaysWrite(credits) == "write"

AfterCredits(credits) == IF credits # <<>> THEN "write" ELSE "done"

\* return credit_list
ReturnCredits ==
    /\ pc = "filter"
    /\ idx > Len(all_payments)
    /\ pc' = AfterCredits(credit_list)
    /\ UNCHANGED <<env, access_token, new_refresh_token, payment_methods,
                   accounts, payment_to_deposit, all_payments, start_position,
                   idx, one_month_ago, locals, credit_list, csv_file, error,
                   log, fetched>>

(* with open(csv_filename, "w") ...: "ok" writes the header and every row;   *)
(* "open_failed" is open() raising; "write_failed" is an error after the file *)
(* was truncated.                                                             *)
WriteCsv ==
    /\ pc = "write"
    /\ \E r \in outcomes.write :
        /\ log' = Append(log, Call("write", "unprocessed_payments.csv", 0, r))
        /\ CASE r = "ok" ->
                  /\ csv_file' = [status |-> "written", rows |-> credit_list]
                  /\ pc' = "email"
                  /\ UNCHANGED error
             [] r = "open_failed" ->
                  /\ Abort("OSError")
                  /\ UNCHANGED csv_file
             [] r = "write_failed" ->
                  /\ Abort("OSError")
                  /\ csv_file' = [status |-> "partial", rows |-> <<>>]
    /\ UNCHANGED <<env, access_token, new_refresh_token, payment_methods,
                   accounts, payment_to_deposit, all_payments, start_position,
                   idx, one_month_ago, locals, credit_list, fetched>>

\* where the script is after send_email_with_csv ended with result r:
\* every exception is caught inside it and turned into  return False
AfterEmail(r) == "done"

SendEmail ==
    /\ pc = "email"
    /\ \E r \in outcomes.email :
        /\ log' = Append(log, Call("email", "unprocessed_payments.csv",
                                   Len(credit_list), r))
        /\ pc' = AfterEmail(r)
        /\ error' = IF AfterEmail(r) = "aborted" THEN "Exception" ELSE error
    /\ UNCHANGED <<env, access_token, new_refresh_token, payment_methods,
                   accounts, payment_to_deposit, all_payments, start_position,
                   idx, one_month_ago, locals, credit_list, csv_file, fetched>>

Next ==
    \/ RefreshToken
    \/ UpdateGithubSecret
    \/ FetchPaymentMethods
    \/ FetchAccountPage
    \/ FetchDepositPage
    \/ FetchPaymentPage
    \/ FilterPayment
    \/ ReturnCredits
    \/ WriteCsv
    \/ SendEmail

Terminated == pc \in {"done", "aborted"}

-----------------------------------------------------------------------------
(* Remote data *)

PaymentIds == <<"P1", "P2", "P3", "P4", "P5", "P6", "P7", "P8">>
DepositIds == <<"D1", "D2", "D3", "D4", "D5", "D6", "D7", "D8">>
AccountIds == <<"A1", "A2", "A3", "A4", "A5", "A6", "A7", "A8">>
DocNumbers == <<"1001", "1002", "1003", "1004", "1005", "1006", "1007", "1008">>

StdMethods ==
    << [Id |-> "1", Name |-> "Credit Card"],
       [Id |-> "2", Name |-> "ACH"],
       [Id |-> "3", Name |-> "Cash"] >>

StdAccount(k) ==
    [Id |-> AccountIds[k],
     Name |-> IF k % 2 = 0 THEN Missing ELSE "Checking",
     FullyQualifiedName |-> IF k % 3 = 0 THEN Missing ELSE "Bank:Checking"]

LinkedTxn(type, id) == [TxnType |-> type, TxnId |-> id]
Line(links) == [LinkedTxn |-> links]

StdDeposit(k) ==
    [Id |-> DepositIds[k], DocNumber |-> DocNumbers[k],
     Line |-> << Line(<< LinkedTxn("Payment", PaymentIds[k]) >>) >>]

MkPayment(id, process_payment, method_ref, txn_date, account_ref, lines) ==
    [Id |-> id, TxnDate |-> txn_date, TotalAmt |-> 100,
     CustomerRef |-> [value |-> "C1", name |-> "Acme"],
     PaymentMethodRef |-> method_ref, DepositToAccountRef |-> account_ref,
     ProcessPayment |-> process_payment, PaymentRefNum |-> Missing,
     PrivateNote |-> Missing, Line |-> lines]

\* the day before a date, and the date n days before a date
PrevDay(dt) ==
    IF dt.d > 1 THEN Date(dt.y, dt.m, dt.d - 1)
    ELSE IF dt.m > 1 THEN Date(dt.y, dt.m - 1, DaysInMonth(dt.y, dt.m - 1))
    ELSE Date(dt.y - 1, 12, 31)

RECURSIVE DaysBefore(_, _)
DaysBefore(dt, n) ==
    IF n < dt.d THEN Date(dt.y, dt.m, dt.d - n)
    ELSE DaysBefore(PrevDay(Date(dt.y, dt.m, 1)), n - dt.d)

RunDate == Date(2026, 11, 4)

\* a payment that passes the filter on RunDate, and one that does not
GoodPayment(k) ==
    MkPayment(PaymentIds[k], Missing, "2", DateStr(DaysBefore(RunDate, 10)), "A1",
              << Line(<< LinkedTxn("Invoice", "INV-1") >>) >>)

ProcessedPayment(k) ==
    MkPayment(PaymentIds[k], PyTrue, "1", DateStr(DaysBefore(RunDate, 3)), "A9", <<>>)

StdPayment(k, profile) ==
    CASE profile = "retained" -> GoodPayment(k)
      [] profile = "excluded" -> ProcessedPayment(k)
      [] OTHER -> IF k % 2 = 1 THEN ProcessedPayment(k) ELSE GoodPayment(k)

Remote(methods, accts, deps, pays) ==
    [PaymentMethod |-> methods, Account |-> accts, Deposit |-> deps,
     Payment |-> pays]

(* The run on collections of every size up to the bounds *)
Init ==
    /\ InitProgram
    /\ today = RunDate
    /\ github_configured \in BOOLEAN
    /\ outcomes = AnyOutcome
    /\ csv_file \in {NoFile, StaleFile}
    /\ remote \in
         { Remote(StdMethods,
                  [k \in 1..na |-> StdAccount(k)],
                  [k \in 1..nd |-> StdDeposit(k)],
                  [k \in 1..np |-> StdPayment(k, profile)]) :
             na \in 0..MaxAccounts, nd \in 0..MaxDeposits, np \in 0..MaxPayments,
             profile \in {"retained", "excluded", "mixed"} }

Spec == Init /\ [][Next]_vars

-----------------------------------------------------------------------------
(* Runs on varied payments and deposits, every call answered *)

\* all sequences over S of length at most n
SeqsUpTo(S, n) == UNION { [1..k -> S] : k \in 0..n }

Body(pp, method, date, acct, lines) ==
    [pp |-> pp, method |-> method, date |-> date, acct |-> acct, lines |-> lines]

\* the payments with the given bodies, with ids by position
WithIds(bodies) ==
    [k \in 1..Len(bodies) |->
        MkPayment(PaymentIds[k], bodies[k].pp, bodies[k].method, bodies[k].date,
                  bodies[k].acct, bodies[k].lines)]

InitQuiet ==
    /\ InitProgram
    /\ github_configured = TRUE
    /\ outcomes = QuietOutcome
    /\ csv_file = NoFile

RecentDate == DateStr(DaysBefore(RunDate, 10))
OldDate    == DateStr(DaysBefore(RunDate, 45))

(* each of the three predicates true or false, and the data-shape anomalies *)
FilterBodies ==
    { Body(pp, method, date, "A1", <<>>) :
        pp \in {Missing, PyTrue}, method \in {"2", "3"}, date \in {RecentDate, OldDate} }
    \cup { Body(Missing, Missing, DateMissing, Missing, <<>>),
           Body(Missing, "9", RecentDate, "A9", <<>>),
           Body(PyFalse, EmptyRef, DateGarbage, EmptyRef, <<>>),
           Body(Missing, "1", DateNull, "A1", <<>>),
           Body(Missing, "1", DateInt, "A1", <<>>) }

InitFilter ==
    /\ InitQuiet
    /\ today = RunDate
    /\ remote \in { Remote(StdMethods, <<StdAccount(1)>>, <<StdDeposit(1)>>,
                           WithIds(bodies)) :
                      bodies \in SeqsUpTo(FilterBodies, MaxFilterPayments) }

SpecFilter == InitFilter /\ [][Next]_vars

(* every kind of value of ProcessPayment *)
FlagValues ==
    {Missing, PyNone, PyTrue, PyFalse, PyInt0, PyInt1, PyInt2, PyFloat1,
     PyStrTrue, PyStrEmpty}

InitFlags ==
    /\ InitQuiet
    /\ today = RunDate
    /\ remote \in { Remote(StdMethods, <<StdAccount(1)>>, <<StdDeposit(1)>>,
                           WithIds(bodies)) :
                      bodies \in SeqsUpTo({ Body(pp, "1", RecentDate, "A1", <<>>) :
                                              pp \in FlagValues },
                                          MaxFlagPayments) }

SpecFlags == InitFlags /\ [][Next]_vars

(* run dates after which 30 days back crosses February of a leap year, of a  *)
(* common year, the turn of the year, and an ordinary month end              *)
RunDates == {Date(2024, 3, 1), Date(2025, 3, 1), Date(2026, 1, 15), RunDate}

DateValues(now) ==
    { DateStr(DaysBefore(now, n)) : n \in {0, 29, 30, 31, 60} }
    \cup { DateMissing, DateEmpty, DateGarbage,
           TxnDateValue("ymd", now.y, 2, 30), TxnDateValue("ymd", now.y, 13, 1),
           TxnDateValue("ymd", now.y, now.m, 0) }

InitDates ==
    /\ InitQuiet
    /\ today \in RunDates
    /\ remote \in { Remote(StdMethods, <<StdAccount(1)>>, <<StdDeposit(1)>>,
                           WithIds(bodies)) :
                      bodies \in SeqsUpTo({ Body(Missing, "1", date, "A1", <<>>) :
                                              date \in DateValues(today) }
                                          \cup { Body(PyTrue, "3", date, "A1", <<>>) :
                                              date \in DateValues(today) },
                                          MaxDatePayments) }

SpecDates == InitDates /\ [][Next]_vars

(* the lines of a deposit: no line, empty lines, links of type Payment and   *)
(* of other types, with and without TxnId, on one line and on several        *)
DepositLines ==
    { <<>>,
      << Line(<<>>) >>,
      << Line(<< LinkedTxn("Payment", "P1") >>) >>,
      << Line(<< LinkedTxn("Payment", "P2") >>) >>,
      << Line(<< LinkedTxn("Invoice", "P1") >>) >>,
      << Line(<< LinkedTxn(Missing, "P1") >>) >>,
      << Line(<< LinkedTxn("Payment", Missing) >>) >>,
      << Line(<< LinkedTxn("Payment", "P1"), LinkedTxn("Payment", "P2") >>) >>,
      << Line(<< LinkedTxn("Payment", "P1") >>), Line(<< LinkedTxn("Payment", "P2") >>) >>,
      << Line(<< LinkedTxn("JournalEntry", "P2"), LinkedTxn("Payment", "P1") >>) >>,
      << Line(<<>>), Line(<< LinkedTxn("Payment", "P2") >>) >> }

WithDepositIds(lines) ==
    [k \in 1..Len(lines) |->
        [Id |-> IF k % 4 = 0 THEN Missing ELSE DepositIds[k],
         DocNumber |-> IF k % 2 = 0 THEN Missing ELSE DocNumbers[k],
         Line |-> lines[k]]]

InitDeposits ==
    /\ InitQuiet
    /\ today = RunDate
    /\ remote \in { Remote(StdMethods, <<StdAccount(1)>>, WithDepositIds(lines),
                           <<GoodPayment(1), ProcessedPayment(2)>>) :
                      lines \in SeqsUpTo(DepositLines, MaxLinkedDeposits) }

SpecDeposits == InitDeposits /\ [][Next]_vars

(* the lines of a payment: on every line, at every place, an Invoice link    *)
(* with a TxnId, an Invoice link without TxnId, or a link of another type    *)
InvoiceIds ==
    << <<"INV-11", "INV-12", "INV-13", "INV-14">>,
       <<"INV-21", "INV-22", "INV-23", "INV-24">>,
       <<"INV-31", "INV-32", "INV-33", "INV-34">>,
       <<"INV-41", "INV-42", "INV-43", "INV-44">> >>

LinkOfKind(kind, i, j) ==
    CASE kind = "invoice"       -> LinkedTxn("Invoice", InvoiceIds[i][j])
      [] kind = "invoice_no_id" -> LinkedTxn("Invoice", Missing)
      [] OTHER                  -> LinkedTxn("CreditMemo", InvoiceIds[i][j])

LinkKinds == {"invoice", "invoice_no_id", "other"}

PaymentLines ==
    { [i \in 1..Len(kinds) |->
          Line([j \in 1..Len(kinds[i]) |-> LinkOfKind(kinds[i][j], i, j)])] :
        kinds \in SeqsUpTo(SeqsUpTo(LinkKinds, MaxLinks), MaxLines) }

InitInvoices ==
    /\ InitQuiet
    /\ today = RunDate
    /\ remote \in { Remote(StdMethods, <<StdAccount(1)>>, <<StdDeposit(1)>>,
                           WithIds(<< Body(Missing, "1", RecentDate, "A1", lines) >>)) :
                      lines \in PaymentLines }

SpecInvoices == InitInvoices /\ [][Next]_vars

-----------------------------------------------------------------------------
(* Vocabulary of the properties *)

LogIdx == 1..Len(log)

\* how far the script is: the rank of the step it is at (or aborted in)
CallRank(c) ==
    CASE c.call = "token"  -> 1
      [] c.call = "secret" -> 2
      [] c.call = "query" /\ c.entity = "PaymentMethod" -> 3
      [] c.call = "query" /\ c.entity = "Account" -> 4
      [] c.call = "query" /\ c.entity = "Deposit" -> 5
      [] c.call = "query" /\ c.entity = "Payment" -> 6
      [] c.call = "write" -> 8
      [] OTHER -> 9

PcRank ==
    CASE pc = "token"  -> 1
      [] pc = "secret" -> 2
      [] pc = "pm"     -> 3
      [] pc = "acct"   -> 4
      [] pc = "dep"    -> 5
      [] pc = "pay"    -> 6
      [] pc = "filter" -> 7
      [] pc = "write"  -> 8
      [] pc = "email"  -> 9
      [] pc = "done"   -> 10
      [] OTHER -> IF error = "TypeError" THEN 7 ELSE CallRank(log[Len(log)])

EntityRank(entity) ==
    CASE entity = "Account" -> 4 [] entity = "Deposit" -> 5 [] OTHER -> 6

\* the loop over the entity's pages has been left
LoopOver(entity) == PcRank > EntityRank(entity)

\* get_qbo_credits has returned
Returned == PcRank > 7

\* the requests made for an entity, in order
Requests(entity) ==
    LET IsRequest(c) == c.call = "query" /\ c.entity = entity
    IN SelectSeq(log, IsRequest)

\* every request for the entity was answered with a page and a success status
ServedInPages(entity) ==
    \A k \in 1..Len(Requests(entity)) : Requests(entity)[k].resp = "ok"

\* the items of the entity the script has taken in
Consumed(entity) ==
    CASE entity = "Account" -> fetched.Account
      [] entity = "Deposit" -> fetched.Deposit
      [] OTHER -> all_payments

PagedEntities == {"Account", "Deposit", "Payment"}

-----------------------------------------------------------------------------
(* C2: paging *)

C2_PagesOf(entity) ==
    LET reqs == Requests(entity)
        n    == Len(remote[entity])
        full == n \div max_results
    IN ServedInPages(entity) =>
         /\ \A k \in 1..Len(reqs) : reqs[k].pos = 1 + (k - 1) * max_results
         /\ Len(reqs) <= full + 1
         /\ Consumed(entity) =
                SubSeq(remote[entity], 1, Min(n, Len(reqs) * max_results))
         /\ LoopOver(entity) <=> Len(reqs) = full + 1
         /\ LoopOver(entity) => Consumed(entity) = remote[entity]

C2_Paging == \A entity \in PagedEntities : C2_PagesOf(entity)

\* the steps the script has left at most, counted stage by stage
StepsLeft ==
    LET width == Len(remote.Account) + Len(remote.Deposit) + Len(remote.Payment) + 2
        PagesLeft(entity) ==
            (Len(remote[entity]) \div max_results) + 1 - Len(Requests(entity))
        here == CASE pc = "acct"   -> PagesLeft("Account")
                  [] pc = "dep"    -> PagesLeft("Deposit")
                  [] pc = "pay"    -> PagesLeft("Payment")
                  [] pc = "filter" -> Len(all_payments) - idx + 2
                  [] OTHER         -> 1
    IN IF Terminated THEN 0 ELSE (10 - PcRank) * width + here

(* C2: for each of Account, Deposit and Payment, on a remote collection of N *)
(* items served in pages of max_results from position 1, the requests are at *)
(* positions 1, 1+M, 1+2M, ...; the loop is left exactly with the first page *)
(* shorter than M, which is request number N div M + 1 (an empty page when N *)
(* is a multiple of M); no request follows it; the items taken in are the    *)
(* N items in remote order; and the loops terminate: every step of the run   *)
(* lowers a natural number that is 0 only when the run has ended.            *)
C2_PagingTerminates ==
    /\ [](C2_Paging /\ (StepsLeft = 0 <=> Terminated))
    /\ [][StepsLeft' < StepsLeft /\ StepsLeft' >= 0]_vars

\* a loop was left on an empty last page after full pages, another on a short one
C2_Witness ==
    /\ pc = "done"
    /\ \A entity \in PagedEntities : ServedInPages(entity)
    /\ Len(all_payments) = max_results
    /\ Len(Requests("Payment")) = 2
    /\ Len(fetched.Deposit) = 1
    /\ Len(Requests("Deposit")) = 1

-----------------------------------------------------------------------------
(* C8: failures of the token refresh and of the queries *)

SuccessResponses == {"ok", "rotated", "not_rotated"}

(* C8: a token-refresh or query call that fails or returns a non-success     *)
(* status is the last call of the run: the run is aborted at it, it is not   *)
(* retried, no later query is issued, no file is written, no email is sent   *)
(* (so a non-success response is never taken for an empty or short page).    *)
C8_FailureAbortsRun ==
    \A k \in LogIdx :
        (log[k].call \in {"token", "query"} /\ log[k].resp \notin SuccessResponses)
        => /\ k = Len(log)
           /\ pc = "aborted"
           /\ csv_file.status \in {"absent", "stale"}

-----------------------------------------------------------------------------
(* C9: failures of the secret-store update and of the email *)

(* C9: the secret-store update is attempted only after a refresh that rotated *)
(* the token, with the store configured; when it fails the access token is    *)
(* still returned and the next step is the PaymentMethod query; the email is  *)
(* the last call of a run, made right after a complete write of the file, and *)
(* whether it fails or not the run ends normally with the file in place.      *)
C9_DeliveryFailuresNonFatal ==
    /\ \A k \in LogIdx : log[k].call = "secret" =>
          /\ github_configured
          /\ new_refresh_token # PyNone
          /\ k = 2 /\ log[1].resp = "rotated"
    /\ \A k \in LogIdx : (log[k].call = "secret" /\ log[k].resp = "failed") =>
          /\ access_token # PyNone
          /\ IF k = Len(log)
             THEN pc = "pm" /\ error = ""
             ELSE log[k + 1].call = "query" /\ log[k + 1].entity = "PaymentMethod"
    /\ \A k \in LogIdx : log[k].call = "email" =>
          /\ k = Len(log)
          /\ k > 1 /\ log[k - 1].call = "write" /\ log[k - 1].resp = "ok"
          /\ credit_list # <<>>
          /\ csv_file = [status |-> "written", rows |-> credit_list]
          /\ pc = "done" /\ error = ""

\* both deliveries failed and the run ended normally with the file written
C9_Witness ==
    /\ pc = "done"
    /\ \E k \in LogIdx : log[k].call = "secret" /\ log[k].resp = "failed"
    /\ log[Len(log)].call = "email" /\ log[Len(log)].resp = "failed"
    /\ csv_file.status = "written"
    /\ csv_file.rows # <<>>

-----------------------------------------------------------------------------
(* C10: export and email only for a non-empty result *)

C10_State ==
    /\ (\E k \in LogIdx : log[k].call \in {"write", "email"}) => credit_list # <<>>
    /\ Cardinality({k \in LogIdx : log[k].call = "email"}) <= 1
    /\ \A k \in LogIdx : log[k].call = "email" =>
          \E j \in 1..(k - 1) : log[j].call = "write" /\ log[j].resp = "ok"
    /\ (Returned /\ credit_list = <<>>) =>
          pc = "done" /\ csv_file.status \in {"absent", "stale"}

(* C10: the file is written and the email sent only when credit_list is not  *)
(* empty; when the filter retains nothing the file on disk is left as it was *)
(* (no header-only file) and no email is attempted; the email is attempted   *)
(* at most once, and only after a write of the file that completed.          *)
C10_ExportOnlyWhenRetained ==
    /\ []C10_State
    /\ [][csv_file' # csv_file => (pc = "write" /\ credit_list # <<>>)]_vars

\* payments were fetched, none retained, and the run ended with the old file untouched
C10_Witness ==
    /\ pc = "done"
    /\ all_payments # <<>>
    /\ credit_list = <<>>
    /\ csv_file = StaleFile
    /\ \A k \in LogIdx : log[k].call \notin {"write", "email"}

-----------------------------------------------------------------------------
(* Vocabulary of the per-payment properties *)

\* the filter loop has just finished an iteration; LastPayment is its payment
AfterIteration == pc = "filter" /\ idx > 1
LastPayment == all_payments[idx - 1]

\* how many payments the filter loop has been through
Processed ==
    IF PcRank < 7 THEN 0 ELSE IF Returned THEN Len(all_payments) ELSE idx - 1

\* credit_list holds a row for the payment
HasRow(payment) ==
    \E k \in 1..Len(credit_list) : credit_list[k].Payment_ID = payment.Id

RangeOf(seq) == { seq[k] : k \in 1..Len(seq) }

-----------------------------------------------------------------------------
(* C1: the filter *)

\* the three predicates, as the loop computes them for a payment
C1_Unprocessed(payment) == is_unprocessed(payment)
C1_ValidMethod(payment) ==
    is_valid_method(payment_method_of(payment, payment_methods))
C1_Recent(payment) ==
    LET parsed == strptime(payment_date_str(payment))
    IN parsed.exc = "" /\ is_recent_of(parsed.date, one_month_ago)

C1_Keeps(payment) ==
    C1_Unprocessed(payment) /\ C1_ValidMethod(payment) /\ C1_Recent(payment)

(* C1: the rows of credit_list are, in fetch order, exactly the fetched      *)
(* payments for which is_unprocessed, is_valid_method and is_recent all      *)
(* hold: while the loop runs for the payments it has been through, and for   *)
(* all fetched payments in the list get_qbo_credits returns.                 *)
C1_FilterConjunction ==
    LET kept == SelectSeq(SubSeq(all_payments, 1, Processed), C1_Keeps)
    IN PcRank >= 7 =>
         /\ Len(credit_list) = Len(kept)
         /\ \A k \in 1..Len(kept) : credit_list[k].Payment_ID = kept[k].Id

\* of three payments the second fails the recency test alone; the list
\* returned holds the first and the third, in that order
C1_Witness ==
    /\ Returned
    /\ Len(all_payments) = 3
    /\ C1_Unprocessed(all_payments[2]) /\ C1_ValidMethod(all_payments[2])
    /\ ~C1_Recent(all_payments[2])
    /\ Len(credit_list) = 2
    /\ credit_list[1].Payment_ID = "P1"
    /\ credit_list[2].Payment_ID = "P3"

-----------------------------------------------------------------------------
(* C3: the recency boundary *)

\* a TxnDate that is missing, or a string that is no calendar date y-m-d
C3_Unparsable(v) ==
    \/ v.k \in {"missing", "text"}
    \/ v.k = "ymd" /\ ~(v.m \in 1..12 /\ v.d \in 1..DaysInMonth(v.y, v.m))

(* C3: a payment dated exactly 30 days before today is recent, and is        *)
(* retained iff it is unprocessed with a valid method; a payment dated 31    *)
(* days before today is not recent and not retained; a payment whose TxnDate *)
(* is missing or is a string that is no date is not recent and not retained, *)
(* whatever its flag and method.                                             *)
C3_RecencyBoundary ==
    AfterIteration =>
        LET v == LastPayment.TxnDate
            others == locals.is_unprocessed /\ locals.is_valid_method
        IN /\ v = DateStr(DaysBefore(today, 30)) =>
                 locals.is_recent /\ (HasRow(LastPayment) <=> others)
           /\ v = DateStr(DaysBefore(today, 31)) =>
                 ~locals.is_recent /\ ~HasRow(LastPayment)
           /\ C3_Unparsable(v) =>
                 ~locals.is_recent /\ ~HasRow(LastPayment)

\* on 1 March 2024 a payment of 31 January 2024 (30 days back, across the
\* 29 days of February) has been retained
C3_Witness ==
    /\ AfterIteration
    /\ today = Date(2024, 3, 1)
    /\ LastPayment.TxnDate = DateStr(Date(2024, 1, 31))
    /\ LastPayment.TxnDate = DateStr(DaysBefore(today, 30))
    /\ HasRow(LastPayment)

-----------------------------------------------------------------------------
(* C4: is_unprocessed *)

C4_Flag(payment) == payment.ProcessPayment

C4_Is(values) ==
    /\ AfterIteration => (locals.is_unprocessed <=> C4_Flag(LastPayment) \notin values)
    /\ Returned => \A payment \in RangeOf(all_payments) :
                       HasRow(payment) <=> C4_Flag(payment) \notin values

(* C4: is_unprocessed is false only when ProcessPayment is the boolean true; *)
(* for an absent, false or non-boolean ProcessPayment (the integer 1, the    *)
(* string "true") it is true.                                                *)
C4_UnprocessedUnlessTrue == C4_Is({PyTrue})

(* C4 as amended: is_unprocessed is false exactly when ProcessPayment equals *)
(* True under Python's ==, that is for the boolean true and for the numbers  *)
(* 1 and 1.0; for an absent, null or false ProcessPayment, any other number  *)
(* and any string (the string "true" too) it is true.                        *)
C4_UnprocessedUnlessEqualsTrue == C4_Is({PyTrue, PyInt1, PyFloat1})

\* of two payments otherwise alike, the one flagged "true" (a string) is
\* retained and the one flagged 1 (a number) is not
C4_Witness ==
    /\ Returned
    /\ Len(all_payments) = 2
    /\ C4_Flag(all_payments[1]) = PyStrTrue
    /\ C4_Flag(all_payments[2]) = PyInt1
    /\ ~locals.is_unprocessed
    /\ Len(credit_list) = 1
    /\ credit_list[1].Payment_ID = "P1"

-----------------------------------------------------------------------------
(* C5: the deposit index *)

\* the payment ids a deposit references by links of type Payment
C5_Refs(deposit) ==
    UNION { { line.LinkedTxn[j].TxnId :
                j \in { i \in 1..Len(line.LinkedTxn) :
                          line.LinkedTxn[i].TxnType = "Payment" } } :
            line \in RangeOf(deposit.Line) }
    \ {Missing, ""}

C5_OrEmpty(v) == IF v = Missing THEN "" ELSE v

(* C5: payment_to_deposit has a key for every payment id that a link of type *)
(* Payment on a line of a fetched deposit references, and no other key; the  *)
(* entry of an id carries the Id and DocNumber of the last fetched deposit   *)
(* referencing it; and when the Deposit loop has been left the fetched       *)
(* deposits are all the remote deposits, of every page.                      *)
C5_DepositIndex ==
    LET deps == fetched.Deposit
        refs == UNION { C5_Refs(deps[k]) : k \in 1..Len(deps) }
        Last(id) == CHOOSE k \in 1..Len(deps) :
                        /\ id \in C5_Refs(deps[k])
                        /\ \A j \in (k + 1)..Len(deps) : id \notin C5_Refs(deps[j])
    IN /\ DOMAIN payment_to_deposit = refs
       /\ \A id \in refs :
             payment_to_deposit[id] =
                 [Deposit_ID     |-> C5_OrEmpty(deps[Last(id)].Id),
                  Deposit_Number |-> C5_OrEmpty(deps[Last(id)].DocNumber)]
       /\ LoopOver("Deposit") => deps = remote.Deposit

\* P1 is referenced by the first deposit and by the third, which came on the
\* second page, and its entry is the third deposit's
C5_Witness ==
    /\ LoopOver("Deposit")
    /\ Len(fetched.Deposit) = 3
    /\ Len(Requests("Deposit")) = 2
    /\ "P1" \in C5_Refs(fetched.Deposit[1])
    /\ "P1" \in C5_Refs(fetched.Deposit[3])
    /\ "P1" \in DOMAIN payment_to_deposit
    /\ payment_to_deposit["P1"].Deposit_ID = "D3"

-----------------------------------------------------------------------------
(* C6: the invoice number *)

\* the payment a row was made from (payment ids are distinct)
C6_PaymentOf(row) == CHOOSE p \in RangeOf(all_payments) : p.Id = row.Payment_ID

C6_IsInvoice(link) == link.TxnType = "Invoice"

\* the places <<line, link>> of the Invoice links of a payment
C6_InvoicePlaces(payment) ==
    { <<i, j>> \in (1..Len(payment.Line)) \X (1..MaxLinks + 1) :
        /\ j <= Len(payment.Line[i].LinkedTxn)
        /\ C6_IsInvoice(payment.Line[i].LinkedTxn[j]) }

C6_Before(a, b) == a[1] < b[1] \/ (a[1] = b[1] /\ a[2] <= b[2])

C6_First(places) == CHOOSE a \in places : \A b \in places : C6_Before(a, b)

C6_IdAt(payment, place) ==
    C5_OrEmpty(payment.Line[place[1]].LinkedTxn[place[2]].TxnId)

(* C6: Invoice_Number is the TxnId of the first Invoice link in the order of *)
(* the lines and of the links of a line, and is the empty string iff the     *)
(* payment has no Invoice link.                                              *)
C6_FirstInvoiceLink ==
    \A row \in RangeOf(credit_list) :
        LET places == C6_InvoicePlaces(C6_PaymentOf(row))
        IN /\ row.Invoice_Number = "" <=> places = {}
           /\ places # {} =>
                row.Invoice_Number = C6_IdAt(C6_PaymentOf(row), C6_First(places))

(* C6 as amended: taking of every line its first Invoice link, Invoice_Number *)
(* is the first non-empty TxnId among these in line order, and is the empty   *)
(* string iff no line's first Invoice link carries a TxnId; so when every     *)
(* Invoice link carries a TxnId it is the TxnId of the first Invoice link of  *)
(* the payment, whatever later lines and later links reference.               *)
C6_FirstInvoiceIdOfLines ==
    \A row \in RangeOf(credit_list) :
        LET payment == C6_PaymentOf(row)
            places == C6_InvoicePlaces(payment)
            heads == { a \in places : \A b \in places : b[1] = a[1] => C6_Before(a, b) }
            named == { a \in heads : C6_IdAt(payment, a) # "" }
        IN /\ row.Invoice_Number = "" <=> named = {}
           /\ named # {} => row.Invoice_Number = C6_IdAt(payment, C6_First(named))
           /\ (places # {} /\ \A a \in places : C6_IdAt(payment, a) # "") =>
                row.Invoice_Number = C6_IdAt(payment, C6_First(places))

\* a payment whose two lines each hold two Invoice links has the number of
\* the first link of its first line
C6_Witness ==
    /\ Returned
    /\ Len(credit_list) = 1
    /\ Len(all_payments[1].Line) = 2
    /\ \A i \in 1..2 : Len(all_payments[1].Line[i].LinkedTxn) = 2
    /\ Cardinality(C6_InvoicePlaces(all_payments[1])) = 4
    /\ \A a \in C6_InvoicePlaces(all_payments[1]) : C6_IdAt(all_payments[1], a) # ""
    /\ credit_list[1].Invoice_Number = "INV-11"

-----------------------------------------------------------------------------
(* C7: data-shape anomalies *)

(* C7: no payment makes the filter loop raise: for a payment with a missing  *)
(* optional field, a missing, malformed or non-string TxnDate, or a method / *)
(* account reference without id or with an id the index does not hold, the   *)
(* name resolves to the empty string and the date to not recent, and the     *)
(* loop goes on to the payments after it.                                    *)
C7_AnomaliesAbsorbed ==
    /\ PcRank = 7 => pc = "filter"
    /\ AfterIteration =>
          /\ RefValue(LastPayment.PaymentMethodRef, PyNone) \notin DOMAIN payment_methods
                => locals.payment_method = ""
          /\ RefValue(LastPayment.DepositToAccountRef, "") \notin DOMAIN accounts
                => locals.deposit_account_name = ""
          /\ LastPayment.TxnDate.k # "ymd" => ~locals.is_recent
    /\ Returned => Processed = Len(all_payments)

====
